---- MODULE Spec2Model ----
(***************************************************************************)
(* LintVisitor of src/services/lint.ts: one depth-first pass over a parsed *)
(* stylesheet that accumulates diagnostic markers, followed by the         *)
(* completion step and the severity filter (LintVisitor.entries).          *)
(*                                                                         *)
(* Text is a sequence of tokens.  The characters the analyzer inspects     *)
(* one at a time ("-", "*", "_", "(", "#", " ") are tokens of their own,   *)
(* every other token is a word that starts with none of them, so           *)
(* s.charAt(i) is the token at index i + 1 wherever the code looks.        *)
(* A node is a record [type, text, children]; a node is named by its path  *)
(* (the child indices from the root), so "descendant" is "path extends".   *)
(***************************************************************************)
EXTENDS Integers, Sequences, FiniteSets, TLC

VARIABLES tree, settings, kb, validProperties, refValid, warnings, refWarnings,
          keyframes, stack, pc, call, entries

vars == <<tree, settings, kb, validProperties, refValid, warnings, refWarnings,
          keyframes, stack, pc, call, entries>>

(* ------------------------------ bounds -------------------------------- *)

MaxTop == 2
MaxDecls == 3
MaxArgs == 4
MaxTerms == 2

(* ------------------------------- text --------------------------------- *)

\* s.charAt(i), i counted from 0; "" past the end
CharAt(s, i) == IF i + 1 <= Len(s) THEN s[i + 1] ELSE ""

\* s.indexOf(t, from), counted from 0; -1 when absent
IndexOf(s, t, from) ==
  LET hits == { i \in from .. Len(s) - 1 : s[i + 1] = t }
  IN  IF hits = {} THEN -1 ELSE CHOOSE i \in hits : \A j \in hits : i <= j

\* s.substr(from) / s.substring(from)
Substr(s, from) == SubSeq(s, from + 1, Len(s))

\* one token of String.prototype.toLowerCase
LowerTok(t) ==
  CASE t = "RGB" -> "rgb"
    [] t = "RGBA" -> "rgba"
    [] t = "HSL" -> "hsl"
    [] t = "HSLA" -> "hsla"
    [] t = "PX" -> "px"
    [] t = "WIDTH" -> "width"
    [] t = "FLOAT" -> "float"
    [] t = "COLOR" -> "color"
    [] OTHER -> t

ToLowerCase(s) == [i \in 1 .. Len(s) |-> LowerTok(s[i])]

RECURSIVE Trim(_)
Trim(s) ==
  IF s = << >> THEN s
  ELSE IF Head(s) = " " THEN Trim(Tail(s))
  ELSE IF s[Len(s)] = " " THEN Trim(SubSeq(s, 1, Len(s) - 1))
  ELSE s

RECURSIVE Flatten(_)
Flatten(ss) == IF ss = << >> THEN << >> ELSE Head(ss) \o Flatten(Tail(ss))

Range(s) == { s[i] : i \in 1 .. Len(s) }

(* ------------------------------- nodes -------------------------------- *)

Node(type, text, children) == [type |-> type, text |-> text, children |-> children]

NoNode == Node("None", << >>, << >>)

RECURSIVE NodeAt(_, _)
NodeAt(n, path) ==
  IF path = << >> THEN n ELSE NodeAt(n.children[Head(path)], Tail(path))

\* index of the first child of the given type, 0 when there is none
ChildIndex(n, type) ==
  LET hits == { i \in 1 .. Len(n.children) : n.children[i].type = type }
  IN  IF hits = {} THEN 0 ELSE CHOOSE i \in hits : \A j \in hits : i <= j

ChildOfType(n, type) ==
  IF ChildIndex(n, type) = 0 THEN NoNode ELSE n.children[ChildIndex(n, type)]

\* Node.getChild(0)
GetChild0(n) == IF Len(n.children) = 0 THEN NoNode ELSE n.children[1]

\* Node.matches(str)
Matches(n, str) == n.text = str

\* the null a node lookup returns, as a path
NoPath == << -1 >>

\* Node.findParent(type): the node itself or its nearest ancestor of that type
FindParent(root, path, type) ==
  LET hits == { k \in 0 .. Len(path) : NodeAt(root, SubSeq(path, 1, k)).type = type }
  IN  IF hits = {} THEN NoPath
      ELSE SubSeq(path, 1, CHOOSE k \in hits : \A j \in hits : j <= k)

\* Declaration.getProperty(), getValue(), getFullPropertyName()
GetProperty(decl) == ChildOfType(decl, "Property")
GetValue(decl) == ChildOfType(decl, "Expression")
GetFullPropertyName(decl) ==
  IF GetProperty(decl) = NoNode THEN << "unknown" >> ELSE GetProperty(decl).text

\* Declaration.getNonPrefixedPropertyName()
GetNonPrefixedPropertyName(decl) ==
  LET propertyName == GetFullPropertyName(decl)
      vendorPrefixEnd == IndexOf(propertyName, "-", 1)
  IN  IF CharAt(propertyName, 0) = "-" /\ vendorPrefixEnd # -1
      THEN Substr(propertyName, vendorPrefixEnd + 1)
      ELSE propertyName

\* Property.getIdentifier() and Identifier.containsInterpolation()
GetIdentifier(property) == ChildOfType(property, "Identifier")
ContainsInterpolation(identifier) == ChildIndex(identifier, "Interpolation") # 0

(* ------------------------------ levels -------------------------------- *)

LevelIgnore == 1
LevelWarning == 2
LevelError == 4

Levels == {LevelIgnore, LevelWarning, LevelError}

RECURSIVE BitAnd(_, _)
BitAnd(a, b) ==
  IF a = 0 \/ b = 0 THEN 0
  ELSE (IF a % 2 = 1 /\ b % 2 = 1 THEN 1 ELSE 0) + 2 * BitAnd(a \div 2, b \div 2)

BitOr(a, b) == a + b - BitAnd(a, b)

DefaultFilter == BitOr(LevelWarning, LevelError)

Rules == {"UnknownAtRules", "UniversalSelector", "AvoidIdSelector", "ImportStatemement",
          "EmptyRuleSet", "BewareOfBoxModelSize", "PropertyIgnoredDueToDisplay",
          "AvoidFloat", "DuplicateDeclarations", "UnknownVendorSpecificProperty",
          "IEStarHack", "UnknownProperty", "IncludeStandardPropertyWhenUsingVendorPrefix",
          "AllVendorPrefixes", "AvoidImportant", "ZeroWithUnit",
          "RequiredPropertiesForFontFace", "HexColorLength", "ArgsInColorFunction"}

(* ----------------------------- markers -------------------------------- *)

\* what a handler asks addEntry to record
Entry(path, rule, details) == [node |-> path, rule |-> rule, details |-> details]

\* addEntry: new nodes.Marker(node, rule, this.settings.getRule(rule), details)
AddEntry(e) == [node |-> e.node, rule |-> e.rule, level |-> settings[e.rule],
                details |-> e.details]

AddEntries(list, added) == list \o [i \in 1 .. Len(added) |-> AddEntry(added[i])]

GetEntriesEqualLevel(list, filter) == SelectSeq(list, LAMBDA e : e.level = filter)

\* getEntries: this.warnings.filter(entry => (entry.getLevel() & filter) !== 0)
GetEntries(list, filter) == SelectSeq(list, LAMBDA e : BitAnd(e.level, filter) # 0)

\* constructor: the membership set built from the raw "validProperties" setting
ValidPropertiesOf(properties) ==
  { ToLowerCase(Trim(p.text)) :
      p \in { q \in Range(properties) : q.isString /\ Len(Trim(q.text)) > 0 } }

(* --------------------------- knowledge base --------------------------- *)

\* CSSDataManager.getAtDirective / isKnownProperty / isStandardProperty
GetAtDirective(text) == text \in kb.atDirectives
IsKnownProperty(name) == name \in kb.known
IsStandardProperty(name) == name \in kb.standard

\* languageFacts.units.length
LengthUnits == {"em", "rem", "ex", "px", "cm", "mm", "in", "pt", "pc", "ch",
                "vw", "vh", "vmin", "vmax"}

\* parseFloat(s) === 0.0 on the numerals of the model
ParseFloatIsZero(s) == s \in {"0", "0.0", "-0"}

(* -------------------------- NodesByRootMap ---------------------------- *)

\* the map as its entries in insertion order (the order for..in visits them)
RootIndex(map, root) ==
  LET hits == { i \in 1 .. Len(map) : map[i].root = root }
  IN  IF hits = {} THEN 0 ELSE CHOOSE i \in hits : TRUE

\* NodesByRootMap.add(root, name, node); NoPath stands for a null node
MapAdd(map, root, name, nodePath) ==
  LET withEntry == IF RootIndex(map, root) = 0
                   THEN Append(map, [root |-> root, names |-> << >>, nodes |-> << >>])
                   ELSE map
      k == RootIndex(withEntry, root)
  IN  [withEntry EXCEPT ![k].names = Append(@, name),
                        ![k].nodes = IF nodePath = NoPath THEN @ ELSE Append(@, nodePath)]

(* ------------------------- per-node handlers -------------------------- *)

\* what a handler returns to the traversal and what it hands to addEntry
Result(ret, added) == [ret |-> ret, added |-> added]

VisitUnknownAtRulePruning(n, path) ==
  LET atRuleName == GetChild0(n)
  IN  IF atRuleName = NoNode THEN Result(FALSE, << >>)
      ELSE IF GetAtDirective(atRuleName.text) THEN Result(FALSE, << >>)
      ELSE Result(FALSE,
                  << Entry(path \o << 1 >>, "UnknownAtRules",
                           << "Unknown at rule " >> \o atRuleName.text) >>)

\* lines 183-196
VisitUnknownAtRuleResult(n, path) ==
  LET atRuleName == GetChild0(n)
  IN  IF atRuleName = NoNode THEN Result(FALSE, << >>)
      ELSE IF GetAtDirective(atRuleName.text) THEN Result(FALSE, << >>)
      ELSE Result(TRUE,
                  << Entry(path \o << 1 >>, "UnknownAtRules",
                           << "Unknown at rule " >> \o atRuleName.text) >>)

\* Keyframe.getKeyword(), Keyframe.getName()
GetKeyword(n) == ChildOfType(n, "AtKeyword")
GetName(n) == n.text

VisitKeyframeResult(n, path) ==
  IF GetKeyword(n) = NoNode THEN Result(FALSE, << >>) ELSE Result(TRUE, << >>)

VisitKeyframeMap(map, n, path) ==
  LET keyword == GetKeyword(n)
      text == keyword.text
  IN  IF keyword = NoNode THEN map
      ELSE MapAdd(map, GetName(n), text,
                  IF text # << "@", "keyframes" >>
                  THEN path \o << ChildIndex(n, "AtKeyword") >> ELSE NoPath)

VisitSimpleSelectorResult(n, path) ==
  LET firstChar == CharAt(n.text, 0)
  IN  Result(TRUE, IF Len(n.text) = 1 /\ firstChar = "*"
                   THEN << Entry(path, "UniversalSelector", << >>) >> ELSE << >>)

VisitIdentifierSelectorResult(n, path) ==
  Result(TRUE, << Entry(path, "AvoidIdSelector", << >>) >>)

VisitImportResult(n, path) ==
  Result(TRUE, << Entry(path, "ImportStatemement", << >>) >>)

VisitPrioResult(n, path) ==
  Result(TRUE, << Entry(path, "AvoidImportant", << >>) >>)

VisitHexColorValueResult(n, path) ==
  LET length == Len(n.text)
  IN  Result(FALSE, IF length # 9 /\ length # 7 /\ length # 5 /\ length # 4
                    THEN << Entry(path, "HexColorLength", << >>) >> ELSE << >>)

IsCSSDeclaration(n) ==
  /\ n.type = "Declaration"
  /\ GetValue(n) # NoNode
  /\ GetProperty(n) # NoNode
  /\ GetIdentifier(GetProperty(n)) # NoNode
  /\ ~ ContainsInterpolation(GetIdentifier(GetProperty(n)))

\* RuleSet.getDeclarations() / FontFace.getDeclarations()
GetDeclarations(n) == ChildOfType(n, "Declarations")

VisitFontFaceResult(n, path) ==
  LET declarations == GetDeclarations(n)
      kids == declarations.children
      css == { i \in 1 .. Len(kids) : IsCSSDeclaration(kids[i]) }
      nameOf(i) == ToLowerCase(GetProperty(kids[i]).text)
      definesSrc == \E i \in css : nameOf(i) = << "src" >>
      definesFontFamily == \E i \in css : nameOf(i) = << "font", "-", "family" >>
      containsUnknowns == \E i \in 1 .. Len(kids) : ~ IsCSSDeclaration(kids[i])
  IN  IF declarations = NoNode THEN Result(FALSE, << >>)
      ELSE Result(TRUE, IF ~ containsUnknowns /\ (~ definesSrc \/ ~ definesFontFamily)
                        THEN << Entry(path, "RequiredPropertiesForFontFace", << >>) >>
                        ELSE << >>)

\* Function.getArguments()
GetArguments(n) == ChildOfType(n, "Nodelist")

\* node.getArguments().accept(n => ...): the count the callback accumulates
RECURSIVE CountBinaryAll(_)
CountBinaryAll(n) ==
  (IF n.type = "BinaryExpression" THEN 1 ELSE 0)
  + (LET RECURSIVE Sum(_)
         Sum(kids) == IF kids = << >> THEN 0 ELSE CountBinaryAll(Head(kids)) + Sum(Tail(kids))
     IN  Sum(n.children))

RECURSIVE ActualAttrCount(_)
ActualAttrCount(n) ==
  IF n.type = "BinaryExpression" THEN 1
  ELSE LET RECURSIVE Sum(_)
           Sum(kids) == IF kids = << >> THEN 0
                        ELSE ActualAttrCount(Head(kids)) + Sum(Tail(kids))
       IN  Sum(n.children)

ExpectedAttrCount(fnName) ==
  CASE fnName = << "rgb", "(" >> -> 3
    [] fnName = << "hsl", "(" >> -> 3
    [] fnName = << "rgba", "(" >> -> 4
    [] fnName = << "hsla", "(" >> -> 4
    [] OTHER -> -1

VisitFunctionResult(n, path) ==
  LET fnName == ToLowerCase(GetName(n))
      expectedAttrCount == ExpectedAttrCount(fnName)
      actualAttrCount == ActualAttrCount(GetArguments(n))
  IN  Result(TRUE, IF expectedAttrCount # -1 /\ actualAttrCount # expectedAttrCount
                   THEN << Entry(path, "ArgsInColorFunction", << >>) >> ELSE << >>)

\* NumericValue.getValue(): { value, unit }
NumericValueOf(n) == [value |-> CharAt(n.text, 0), unit |-> CharAt(n.text, 1)]

VisitNumericValueResult(n, path, valid) ==
  LET funcDecl == FindParent(tree, path, "Function")
      declPath == FindParent(tree, path, "Declaration")
      decl == NodeAt(tree, declPath)
      value == NumericValueOf(n)
  IN  IF funcDecl # NoPath /\ GetName(NodeAt(tree, funcDecl)) = << "calc" >>
      THEN Result(TRUE, << >>)
      ELSE IF declPath = NoPath THEN Result(TRUE, << >>)
      ELSE IF GetValue(decl) = NoNode THEN Result(TRUE, << >>)
      ELSE IF value.unit = "" \/ LowerTok(value.unit) \notin LengthUnits
           THEN Result(TRUE, << >>)
      ELSE Result(TRUE, IF /\ ParseFloatIsZero(value.value)
                           /\ value.unit # ""
                           /\ GetFullPropertyName(decl) \notin valid
                        THEN << Entry(path, "ZeroWithUnit", << >>) >> ELSE << >>)

(* ----------------------- visitRuleSet: the table ---------------------- *)

\* new Element(decl): the declaration with its lower-cased full property name
Element(decl, path) ==
  [fullPropertyName |-> ToLowerCase(GetFullPropertyName(decl)), node |-> decl, path |-> path]

\* propertyTable: the Declaration children of the declarations list, in order
PropertyTable(n, path) ==
  LET kids == GetDeclarations(n).children
      at == ChildIndex(n, "Declarations")
      all == [i \in 1 .. Len(kids) |-> Element(kids[i], path \o << at, i >>)]
  IN  SelectSeq(all, LAMBDA e : e.node.type = "Declaration")

\* the path of decl.getProperty()
PropertyPath(element) == element.path \o << ChildIndex(element.node, "Property") >>

Fetch(input, s) == SelectSeq(input, LAMBDA curr : curr.fullPropertyName = s)

RECURSIVE FindValueInExpression(_, _)
FindValueInExpression(expression, v) ==
  \/ expression.type = "Identifier" /\ Matches(expression, v)
  \/ \E i \in 1 .. Len(expression.children) :
       FindValueInExpression(expression.children[i], v)

FetchWithValue(input, s, v) ==
  SelectSeq(input, LAMBDA e : /\ e.fullPropertyName = s
                              /\ GetValue(e.node) # NoNode
                              /\ FindValueInExpression(GetValue(e.node), v))

\* value && this.documentText.charAt(value.offset) !== '-'
HasPlainValue(element) ==
  GetValue(element.node) # NoNode /\ CharAt(GetValue(element.node).text, 0) # "-"

(* --------------------- visitRuleSet: the box model -------------------- *)

\* utils/arrays union: the items of a, then those of b not yet present
Union(a, b) ==
  LET RECURSIVE Add(_, _)
      Add(acc, rest) ==
        IF rest = << >> THEN acc
        ELSE Add(IF Head(rest) \in Range(acc) THEN acc ELSE Append(acc, Head(rest)),
                 Tail(rest))
  IN  Add(Add(<< >>, a), b)

\* fullPropertyName.split('-')
Segments(name) == SelectSeq(name, LAMBDA t : t # "-")

BoxSides == {"top", "right", "bottom", "left"}

\* the sides a border / padding declaration of that name bears on
SidesOf(name) ==
  LET segments == Segments(name)
  IN  IF Len(segments) = 0 \/ segments[1] \notin {"border", "padding"} THEN {}
      ELSE IF Len(segments) = 1 THEN BoxSides
      ELSE IF segments[2] \in BoxSides THEN {segments[2]}
      ELSE IF segments[1] = "border" /\ segments[2] \in {"width", "style"} THEN BoxSides
      ELSE {}

\* whether the value gives the side an extent (not 0, not none)
HasExtent(value) == ~ ParseFloatIsZero(CharAt(value.text, 0)) /\ CharAt(value.text, 0) # "none"

NoElement == [fullPropertyName |-> << >>, node |-> NoNode, path |-> NoPath]

LastOf(s) == IF s = << >> THEN NoElement ELSE s[Len(s)]

\* lintUtil calculateBoxModel: width, height and the contributors of each side
CalculateBoxModel(propertyTable) ==
  LET valued == SelectSeq(propertyTable, LAMBDA e : GetValue(e.node) # NoNode)
      bail == Fetch(valued, << "box", "-", "sizing" >>) # << >>
      side(s) ==
        LET props == SelectSeq(valued, LAMBDA e : /\ s \in SidesOf(e.fullPropertyName)
                                                  /\ HasExtent(GetValue(e.node)))
        IN  [value |-> ~ bail /\ props # << >>,
             properties |-> IF bail THEN << >> ELSE props]
  IN  [width |-> IF bail THEN NoElement ELSE LastOf(Fetch(valued, << "width" >>)),
       height |-> IF bail THEN NoElement ELSE LastOf(Fetch(valued, << "height" >>)),
       top |-> side("top"), right |-> side("right"),
       bottom |-> side("bottom"), left |-> side("left")]

BoxSizeEntriesNoWidth(dimension, first, second) ==
  LET properties == Union(IF first.value THEN first.properties ELSE << >>,
                          IF second.value THEN second.properties ELSE << >>)
  IN  IF dimension = NoElement \/ properties = << >> THEN << >>
      ELSE [i \in 1 .. Len(properties) |->
              Entry(properties[i].path, "BewareOfBoxModelSize", << >>)]

\* lines 281-295 (width, right, left) and 296-310 (height, top, bottom)
BoxSizeEntries(dimension, first, second) ==
  LET properties == Union(IF first.value THEN first.properties ELSE << >>,
                          IF second.value THEN second.properties ELSE << >>)
  IN  IF dimension = NoElement \/ properties = << >> THEN << >>
      ELSE [i \in 1 .. Len(properties) |->
              Entry(properties[i].path, "BewareOfBoxModelSize", << >>)]
           \o << Entry(dimension.path, "BewareOfBoxModelSize", << >>) >>

BoxModelEntries(propertyTable) ==
  LET boxModel == CalculateBoxModel(propertyTable)
  IN  BoxSizeEntries(boxModel.width, boxModel.right, boxModel.left)
      \o BoxSizeEntries(boxModel.height, boxModel.top, boxModel.bottom)

(* ------------- visitRuleSet: display, float, duplicates --------------- *)

InlineBlockDetail ==
  << "inline-block is ignored due to the float. If 'float' has a value other than 'none', the box is floated and 'display' is treated as 'block'" >>

BlockDetail ==
  << "Property is ignored due to the display. With 'display: block', vertical-align should not be used." >>

FloatIgnoredEvenNone(propertyTable) ==
  LET elem == Fetch(propertyTable, << "float" >>)
  IN  IF FetchWithValue(propertyTable, << "display" >>, << "inline", "-", "block" >>) = << >>
      THEN << >>
      ELSE [i \in 1 .. Len(elem) |->
              Entry(elem[i].path, "PropertyIgnoredDueToDisplay", InlineBlockDetail)]

\* lines 317-327
FloatIgnoredEntries(propertyTable) ==
  LET displayElems == FetchWithValue(propertyTable, << "display" >>,
                                     << "inline", "-", "block" >>)
      elem == SelectSeq(Fetch(propertyTable, << "float" >>),
                        LAMBDA e : /\ GetValue(e.node) # NoNode
                                   /\ ~ Matches(GetValue(e.node), << "none" >>))
  IN  IF Len(displayElems) > 0
      THEN [i \in 1 .. Len(elem) |->
              Entry(elem[i].path, "PropertyIgnoredDueToDisplay", InlineBlockDetail)]
      ELSE << >>

\* lines 330-336
VerticalAlignIgnoredEntries(propertyTable) ==
  LET displayElems == FetchWithValue(propertyTable, << "display" >>, << "block" >>)
      elem == Fetch(propertyTable, << "vertical", "-", "align" >>)
  IN  IF Len(displayElems) > 0
      THEN [i \in 1 .. Len(elem) |->
              Entry(elem[i].path, "PropertyIgnoredDueToDisplay", BlockDetail)]
      ELSE << >>

\* lines 75-78: isValidPropertyDeclaration is the membership test
IsValidPropertyDeclaration(element, valid) == element.fullPropertyName \in valid

AvoidFloatOnlyIfValid(propertyTable, valid) ==
  LET elements == SelectSeq(Fetch(propertyTable, << "float" >>),
                            LAMBDA e : IsValidPropertyDeclaration(e, valid))
  IN  [i \in 1 .. Len(elements) |-> Entry(elements[i].path, "AvoidFloat", << >>)]

\* lines 342-348
AvoidFloatEntries(propertyTable, valid) ==
  LET elements == SelectSeq(Fetch(propertyTable, << "float" >>),
                            LAMBDA e : ~ IsValidPropertyDeclaration(e, valid))
  IN  [i \in 1 .. Len(elements) |-> Entry(elements[i].path, "AvoidFloat", << >>)]

DuplicatesOfSelfToo(propertyTable, element, valid) ==
  LET elements == Fetch(propertyTable, element.fullPropertyName)
      hits == SelectSeq(elements, LAMBDA other : HasPlainValue(other))
  IN  IF /\ element.fullPropertyName # << "background" >>
         /\ element.fullPropertyName \notin valid
         /\ HasPlainValue(element)
      THEN [k \in 1 .. Len(hits) |-> Entry(element.path, "DuplicateDeclarations", << >>)]
      ELSE << >>

\* lines 354-368: the markers one element of the table receives
DuplicatesOf(propertyTable, element, valid) ==
  LET elements == Fetch(propertyTable, element.fullPropertyName)
      hits == SelectSeq(elements,
                        LAMBDA other : HasPlainValue(other) /\ other.path # element.path)
  IN  IF /\ element.fullPropertyName # << "background" >>
         /\ element.fullPropertyName \notin valid
         /\ HasPlainValue(element)
         /\ Len(elements) > 1
      THEN [k \in 1 .. Len(hits) |-> Entry(element.path, "DuplicateDeclarations", << >>)]
      ELSE << >>

\* lines 353-369
DuplicateEntries(propertyTable, valid) ==
  Flatten([i \in 1 .. Len(propertyTable) |->
             DuplicatesOf(propertyTable, propertyTable[i], valid)])

(* ------------- visitRuleSet: unknown / vendor properties -------------- *)

\* LintVisitor.prefixes
Prefixes == << << "-", "s2", "-" >> >>

\* getMissingNames: expectedClone after the loop over actual (<< >> for null)
RECURSIVE StrikeActual(_, _)
StrikeActual(expectedClone, actual) ==
  IF actual = << >> THEN expectedClone
  ELSE LET hits == { k \in 1 .. Len(expectedClone) : expectedClone[k] = Head(actual) }
           k == CHOOSE i \in hits : \A j \in hits : i <= j
       IN  StrikeActual(IF hits = {} THEN expectedClone
                        ELSE [expectedClone EXCEPT ![k] = << >>],
                        Tail(actual))

\* getMissingNames: the list text, << >> when nothing is missing
RECURSIVE JoinMissing(_, _)
JoinMissing(result, rest) ==
  IF rest = << >> THEN result
  ELSE IF Head(rest) = << >> THEN JoinMissing(result, Tail(rest))
  ELSE IF result = << >>
       THEN JoinMissing(<< "'" >> \o Head(rest) \o << "'" >>, Tail(rest))
       ELSE JoinMissing(result \o << ",", " ", "'" >> \o Head(rest) \o << "'" >>, Tail(rest))

GetMissingNames(expected, actual) == JoinMissing(<< >>, StrikeActual(expected, actual))

\* lines 381-414: one element of the table folded into the scan
ScanElement(acc, element, valid) ==
  LET decl == element.node
      name == element.fullPropertyName
      firstChar == CharAt(name, 0)
      hack == firstChar = "*" \/ firstChar = "_"
      stripped == IF hack THEN Substr(name, 1) ELSE name
  IN  IF ~ IsCSSDeclaration(decl) THEN [acc EXCEPT !.containsUnknowns = TRUE]
      ELSE IF firstChar = "-"
      THEN IF CharAt(name, 1) = "-" THEN acc
           ELSE [acc EXCEPT
                   !.added = @ \o (IF ~ IsKnownProperty(name) /\ name \notin valid
                                   THEN << Entry(PropertyPath(element),
                                                 "UnknownVendorSpecificProperty", << >>) >>
                                   ELSE << >>),
                   !.map = MapAdd(@, GetNonPrefixedPropertyName(decl), name,
                                  PropertyPath(element))]
      ELSE [acc EXCEPT
              !.added = @ \o (IF hack
                              THEN << Entry(PropertyPath(element), "IEStarHack", << >>) >>
                              ELSE << >>)
                          \o (IF /\ ~ IsKnownProperty(name)
                                 /\ ~ IsKnownProperty(stripped)
                                 /\ stripped \notin valid
                              THEN << Entry(PropertyPath(element), "UnknownProperty",
                                            << "Unknown property: '" >>
                                            \o GetFullPropertyName(decl) \o << "'" >>) >>
                              ELSE << >>),
              !.map = MapAdd(@, stripped, stripped, NoPath)]

RECURSIVE ScanProperties(_, _, _)
ScanProperties(acc, rest, valid) ==
  IF rest = << >> THEN acc
  ELSE ScanProperties(ScanElement(acc, Head(rest), valid), Tail(rest), valid)

StandardMissingDetail(suffix) ==
  << "Also define the standard property '" >> \o suffix \o << "' for compatibility" >>

VendorMissingDetail(missing) ==
  << "Always include all vendor specific properties: Missing: " >> \o missing

RootEntriesIgnoringBare(entry) ==
  LET suffix == entry.root
      needsStandard == IsStandardProperty(suffix)
  IN  IF ~ needsStandard THEN << >>
      ELSE [i \in 1 .. Len(entry.nodes) |->
              Entry(entry.nodes[i], "IncludeStandardPropertyWhenUsingVendorPrefix",
                    StandardMissingDetail(suffix))]

\* lines 418-446: the markers of one root of propertiesBySuffix
RootEntries(entry) ==
  LET suffix == entry.root
      actual == entry.names
      needsStandard == IsStandardProperty(suffix) /\ suffix \notin Range(actual)
      candidates == [i \in 1 .. Len(Prefixes) |-> Prefixes[i] \o suffix]
      expected == SelectSeq(candidates, IsStandardProperty)
      missingVendorSpecific == GetMissingNames(expected, actual)
      perNode(node) ==
        (IF needsStandard
         THEN << Entry(node, "IncludeStandardPropertyWhenUsingVendorPrefix",
                       StandardMissingDetail(suffix)) >>
         ELSE << >>)
        \o (IF missingVendorSpecific # << >>
            THEN << Entry(node, "AllVendorPrefixes",
                          VendorMissingDetail(missingVendorSpecific)) >>
            ELSE << >>)
  IN  IF ~ needsStandard /\ Len(actual) = 1 THEN << >>
      ELSE IF missingVendorSpecific # << >> \/ needsStandard
      THEN Flatten([i \in 1 .. Len(entry.nodes) |-> perNode(entry.nodes[i])])
      ELSE << >>

\* propertiesBySuffix after the loop of lines 381-414
PropertiesBySuffix(propertyTable, valid) ==
  ScanProperties([map |-> << >>, containsUnknowns |-> FALSE, added |-> << >>],
                 propertyTable, valid)

\* RuleSet.getSelectors()
GetSelectors(n) == ChildOfType(n, "Nodelist")

\* lines 375-449
VendorEntries(n, propertyTable, valid) ==
  LET isExportBlock == Matches(GetSelectors(n), << ":", "export" >>)
      scan == PropertiesBySuffix(propertyTable, valid)
  IN  IF isExportBlock THEN << >>
      ELSE scan.added
           \o (IF scan.containsUnknowns THEN << >>
               ELSE Flatten([i \in 1 .. Len(scan.map) |-> RootEntries(scan.map[i])]))

(* --------------------------- visitRuleSet ----------------------------- *)

VisitRuleSetDescending(n, path, valid) ==
  LET propertyTable == PropertyTable(n, path)
  IN  IF GetDeclarations(n) = NoNode
      THEN Result(TRUE, << >>)
      ELSE Result(TRUE,
             (IF Len(GetDeclarations(n).children) = 0
              THEN << Entry(path \o << ChildIndex(n, "Nodelist") >>, "EmptyRuleSet", << >>) >>
              ELSE << >>)
             \o BoxModelEntries(propertyTable)
             \o FloatIgnoredEntries(propertyTable)
             \o VerticalAlignIgnoredEntries(propertyTable)
             \o AvoidFloatEntries(propertyTable, valid)
             \o DuplicateEntries(propertyTable, valid)
             \o VendorEntries(n, propertyTable, valid))

VisitRuleSetResult(n, path, valid) ==
  LET propertyTable == PropertyTable(n, path)
  IN  IF GetDeclarations(n) = NoNode
      THEN Result(FALSE, << >>)
      ELSE Result(TRUE,
             (IF Len(GetDeclarations(n).children) = 0
              THEN << Entry(path \o << ChildIndex(n, "Nodelist") >>, "EmptyRuleSet", << >>) >>
              ELSE << >>)
             \o BoxModelEntries(propertyTable)
             \o FloatIgnoredEntries(propertyTable)
             \o VerticalAlignIgnoredEntries(propertyTable)
             \o AvoidFloatEntries(propertyTable, valid)
             \o DuplicateEntries(propertyTable, valid)
             \o VendorEntries(n, propertyTable, valid))

(* ---------------------------- visitNode ------------------------------- *)

\* the node types visitNode's switch has a case for
HandledTypes == {"UnknownAtRule", "Keyframe", "FontFace", "Ruleset", "SimpleSelector",
                 "Function", "NumericValue", "Import", "HexColorValue", "Prio",
                 "IdentifierSelector"}

\* visitNode past the switch: return true
VisitNodeDefault(n, path) == Result(TRUE, << >>)

(* ------------------------ the traversal driver ------------------------ *)

Top == stack[Len(stack)]

\* the node acceptVisitor is about to hand to visitNode
Cur == IF pc = "start" THEN << >> ELSE Top.path \o << Top.next >>

CanVisit ==
  \/ pc = "start"
  \/ /\ pc = "walk"
     /\ stack # << >>
     /\ Top.next <= Len(NodeAt(tree, Top.path).children)

\* Node.acceptVisitor: descend iff visitNode returned true and there are children
Descend(path, ret) ==
  LET bumped == IF stack = << >> THEN stack
                ELSE [stack EXCEPT ![Len(stack)].next = @ + 1]
  IN  IF ret /\ Len(NodeAt(tree, path).children) > 0
      THEN Append(bumped, [path |-> path, next |-> 1])
      ELSE bumped

CurNode == NodeAt(tree, Cur)

\* acceptVisitor's use of what visitNode did: res with the visitor's set of valid
\* properties, ref with the reference set
Visited(res, ref) ==
  /\ warnings' = AddEntries(warnings, res.added)
  /\ refWarnings' = AddEntries(refWarnings, ref.added)
  /\ stack' = Descend(Cur, res.ret)
  /\ call' = [path |-> Cur, type |-> CurNode.type, ret |-> res.ret,
              added |-> res.added, refRet |-> ref.ret]
  /\ pc' = "walk"
  /\ UNCHANGED <<tree, settings, kb, validProperties, refValid, entries>>

VisitUnknownAtRule ==
  /\ CanVisit
  /\ CurNode.type = "UnknownAtRule"
  /\ LET res == VisitUnknownAtRuleResult(CurNode, Cur) IN Visited(res, res)
  /\ UNCHANGED keyframes

VisitKeyframe ==
  /\ CanVisit
  /\ CurNode.type = "Keyframe"
  /\ LET res == VisitKeyframeResult(CurNode, Cur) IN Visited(res, res)
  /\ keyframes' = VisitKeyframeMap(keyframes, CurNode, Cur)

VisitFontFace ==
  /\ CanVisit
  /\ CurNode.type = "FontFace"
  /\ LET res == VisitFontFaceResult(CurNode, Cur) IN Visited(res, res)
  /\ UNCHANGED keyframes

VisitRuleSet ==
  /\ CanVisit
  /\ CurNode.type = "Ruleset"
  /\ Visited(VisitRuleSetResult(CurNode, Cur, validProperties),
             VisitRuleSetResult(CurNode, Cur, refValid))
  /\ UNCHANGED keyframes

VisitSimpleSelector ==
  /\ CanVisit
  /\ CurNode.type = "SimpleSelector"
  /\ LET res == VisitSimpleSelectorResult(CurNode, Cur) IN Visited(res, res)
  /\ UNCHANGED keyframes

VisitFunction ==
  /\ CanVisit
  /\ CurNode.type = "Function"
  /\ LET res == VisitFunctionResult(CurNode, Cur) IN Visited(res, res)
  /\ UNCHANGED keyframes

VisitNumericValue ==
  /\ CanVisit
  /\ CurNode.type = "NumericValue"
  /\ Visited(VisitNumericValueResult(CurNode, Cur, validProperties),
             VisitNumericValueResult(CurNode, Cur, refValid))
  /\ UNCHANGED keyframes

VisitImport ==
  /\ CanVisit
  /\ CurNode.type = "Import"
  /\ LET res == VisitImportResult(CurNode, Cur) IN Visited(res, res)
  /\ UNCHANGED keyframes

VisitHexColorValue ==
  /\ CanVisit
  /\ CurNode.type = "HexColorValue"
  /\ LET res == VisitHexColorValueResult(CurNode, Cur) IN Visited(res, res)
  /\ UNCHANGED keyframes

VisitPrio ==
  /\ CanVisit
  /\ CurNode.type = "Prio"
  /\ LET res == VisitPrioResult(CurNode, Cur) IN Visited(res, res)
  /\ UNCHANGED keyframes

VisitIdentifierSelector ==
  /\ CanVisit
  /\ CurNode.type = "IdentifierSelector"
  /\ LET res == VisitIdentifierSelectorResult(CurNode, Cur) IN Visited(res, res)
  /\ UNCHANGED keyframes

\* visitNode on a node type without a case
VisitOther ==
  /\ CanVisit
  /\ CurNode.type \notin HandledTypes
  /\ LET res == VisitNodeDefault(CurNode, Cur) IN Visited(res, res)
  /\ UNCHANGED keyframes

\* the loop over a node's children is over: back to the parent's loop
Ascend ==
  /\ pc = "walk"
  /\ stack # << >>
  /\ Top.next > Len(NodeAt(tree, Top.path).children)
  /\ stack' = SubSeq(stack, 1, Len(stack) - 1)
  /\ UNCHANGED <<tree, settings, kb, validProperties, refValid, warnings, refWarnings,
                 keyframes, pc, call, entries>>

\* completeValidations -> validateKeyframes: bookkeeping only, no marker
CompleteValidations ==
  /\ pc = "walk"
  /\ stack = << >>
  /\ pc' = "complete"
  /\ UNCHANGED <<tree, settings, kb, validProperties, refValid, warnings, refWarnings,
                 keyframes, stack, call, entries>>


NoEntries == [filter |-> -1, out |-> << >>, of |-> << >>]

\* visitor.getEntries(entryFilter); the filter defaults to Warning | Error
CallGetEntries ==
  /\ pc \in {"complete", "done"}
  /\ \E filter \in -1 .. BitOr(LevelIgnore, BitOr(LevelWarning, LevelError)) :
       LET mask == IF filter = -1 THEN DefaultFilter ELSE filter
       IN  entries' = [filter |-> mask, out |-> GetEntries(warnings, mask), of |-> warnings]
  /\ pc' = "done"
  /\ UNCHANGED <<tree, settings, kb, validProperties, refValid, warnings, refWarnings,
                 keyframes, stack, call>>

(* ------------------------- syntax tree inputs ------------------------- *)

SeqsUpTo(S, k) == UNION { [1 .. m -> S] : m \in 0 .. k }

RECURSIVE JoinTexts(_)
JoinTexts(nodes) ==
  IF nodes = << >> THEN << >>
  ELSE IF Len(nodes) = 1 THEN nodes[1].text
  ELSE nodes[1].text \o << " " >> \o JoinTexts(Tail(nodes))

Leaf(type, text) == Node(type, text, << >>)
Term(leaf) == Node("Term", leaf.text, << leaf >>)
Binary(leaf) == Node("BinaryExpression", leaf.text, << Term(leaf) >>)
BinaryOp(left, op, right) ==
  Node("BinaryExpression", left.text \o << " ", op, " " >> \o right.text,
       << left, Leaf("Operator", << op >>), Term(right) >>)
Expression(bins) == Node("Expression", JoinTexts(bins), bins)
FunctionArgument(expr) == Node("FunctionArgument", expr.text, << expr >>)
Function(name, args) == Node("Function", name, << Node("Nodelist", << >>, args) >>)
Property(name) == Node("Property", name, << Leaf("Identifier", name) >>)
Declaration(property, value, rest) ==
  Node("Declaration", property.text,
       << property >> \o (IF value = NoNode THEN << >> ELSE << value >>) \o rest)
Declarations(kids) == Node("Declarations", << >>, kids)
Selectors(kind, text) ==
  Node("Nodelist", text,
       << Node("Selector", text, << Node("SimpleSelector", text, << Leaf(kind, text) >>) >>) >>)
RuleSet(selectors, declarations) ==
  Node("Ruleset", selectors.text,
       << selectors >> \o (IF declarations = NoNode THEN << >> ELSE << declarations >>))
FontFace(declarations) ==
  Node("FontFace", << "@", "font", "-", "face" >>,
       IF declarations = NoNode THEN << >> ELSE << declarations >>)
UnknownAtRule(name, body) ==
  Node("UnknownAtRule", name, << Leaf("Undefined", name) >> \o body)
Keyframe(keyword, name) ==
  Node("Keyframe", name, << Leaf("AtKeyword", keyword), Leaf("Identifier", name) >>)
Stylesheet(tops) == Node("Stylesheet", << >>, tops)

ValueOf(leaves) == Expression([i \in 1 .. Len(leaves) |-> Binary(leaves[i])])
Ident(text) == Leaf("Identifier", text)
Numeric(text) == Leaf("NumericValue", text)
Plain(name, leaves) == Declaration(Property(name), ValueOf(leaves), << >>)

IdRule == RuleSet(Selectors("IdentifierSelector", << "#", "a" >>), Declarations(<< >>))

\* the top-level nodes of the stylesheets of the whole-pass specification
WalkTop ==
  { UnknownAtRule(<< "@", "foo" >>, << Declarations(<< IdRule >>) >>),
    UnknownAtRule(<< "@", "known" >>, << Declarations(<< IdRule >>) >>),
    Node("UnknownAtRule", << >>, << >>),
    RuleSet(Selectors("IdentifierSelector", << "#", "a" >>), NoNode),
    RuleSet(Selectors("ElementNameSelector", << "*" >>),
            Declarations(<< Declaration(Property(<< "width" >>),
                                        ValueOf(<< Numeric(<< "0", "px" >>),
                                                   Leaf("HexColorValue", << "#", "a", "b" >>),
                                                   Function(<< "rgb", "(" >>, << >>) >>),
                                        << Leaf("Prio", << "!", "important" >>) >>) >>)),
    FontFace(NoNode),
    Leaf("Import", << "@", "import" >>),
    Keyframe(<< "@", "-", "s2", "-", "keyframes" >>, << "k" >>) }

AllWarning == [r \in Rules |-> LevelWarning]

\* the resolved severities: every rule a warning, but for the rules in some
WithLevels(some) ==
  { [r \in Rules |-> IF r \in DOMAIN f THEN f[r] ELSE LevelWarning] : f \in [some -> Levels] }

WalkKb == [atDirectives |-> { << "@", "known" >> }, known |-> { << "width" >>, << "src" >> },
           standard |-> { << "width" >>, << "src" >> }]

\* a raw entry of the "validProperties" setting
Raw(text) == [isString |-> TRUE, text |-> text]
NotAString == [isString |-> FALSE, text |-> << >>]

NoCall == [path |-> NoPath, type |-> "None", ret |-> TRUE, added |-> << >>, refRet |-> TRUE]

\* the state new LintVisitor(document, settings, cssDataManager) leaves
Constructed(trees, settingsSet, kbSet, rawLists) ==
  /\ tree \in trees
  /\ settings \in settingsSet
  /\ kb \in kbSet
  /\ \E properties \in rawLists : validProperties = ValidPropertiesOf(properties)
  /\ warnings = << >>
  /\ refWarnings = << >>
  /\ keyframes = << >>
  /\ stack = << >>
  /\ pc = "start"
  /\ call = NoCall
  /\ entries = NoEntries

(* ------------------- the whole pass (LintVisitor.entries) ------------- *)

Init ==
  /\ Constructed({ Stylesheet(tops) : tops \in SeqsUpTo(WalkTop, MaxTop) },
                 WithLevels({"AvoidIdSelector"}), {WalkKb}, { << >> })
  /\ refValid = validProperties

Next ==
  \/ VisitUnknownAtRule
  \/ VisitKeyframe
  \/ VisitFontFace
  \/ VisitRuleSet
  \/ VisitSimpleSelector
  \/ VisitFunction
  \/ VisitNumericValue
  \/ VisitImport
  \/ VisitHexColorValue
  \/ VisitPrio
  \/ VisitIdentifierSelector
  \/ VisitOther
  \/ Ascend
  \/ CompleteValidations
  \/ CallGetEntries

Spec == Init /\ [][Next]_vars

(* ------------------ a declaration's value, term by term --------------- *)

ClassRule(declarations) ==
  RuleSet(Selectors("ClassSelector", << ".", "a" >>), Declarations(declarations))

\* name(n + 1px)
MathCall(name, n) ==
  Function(name, << FunctionArgument(
                      Expression(<< BinaryOp(Term(Numeric(n)), "+",
                                             Numeric(<< "1", "px" >>)) >>)) >>)

\* outer(inner(n + 1px))
Nested(outer, inner, n) ==
  Function(outer, << FunctionArgument(Expression(<< Binary(MathCall(inner, n)) >>)) >>)

MathNames == { << "calc" >>, << "min" >> }

ValueTerms ==
  { Numeric(n) : n \in { << "0", "px" >>, << "1", "px" >>, << "0" >>, << "0", "fr" >>,
                         << "0", "PX" >> } }
  \cup { MathCall(f, n) : f \in MathNames, n \in { << "0", "px" >>, << "1", "px" >> } }
  \cup { Nested(f, g, << "0", "px" >>) : f \in MathNames, g \in MathNames }

InitValue ==
  /\ Constructed({ Stylesheet(<< ClassRule(<< Plain(<< "width" >>, terms) >>) >>) :
                     terms \in SeqsUpTo(ValueTerms, MaxTerms) \ { << >> } },
                 {AllWarning}, {WalkKb},
                 { << >>, << Raw(<< " ", "WIDTH", " " >>), NotAString, Raw(<< " " >>) >> })
  /\ refValid = validProperties

NextValue ==
  \/ VisitRuleSet
  \/ VisitSimpleSelector
  \/ VisitFunction
  \/ VisitNumericValue
  \/ VisitOther
  \/ Ascend
  \/ CompleteValidations
  \/ CallGetEntries

SpecValue == InitValue /\ [][NextValue]_vars

(* --------------------- colour functions in a value -------------------- *)

One == Numeric(<< "1" >>)

\* the shapes of one function argument: 1, 1 + 1 + 1 and 1 1
ArgShapes ==
  { FunctionArgument(Expression(<< Binary(One) >>)),
    FunctionArgument(Expression(<< BinaryOp(BinaryOp(Term(One), "+", One), "+", One) >>)),
    FunctionArgument(Expression(<< Binary(One), Binary(One) >>)) }

InitFunction ==
  /\ Constructed({ Stylesheet(<< ClassRule(<< Plain(<< "color" >>,
                                                       << Function(name, args) >>) >>) >>) :
                     name \in { << "rgb", "(" >>, << "RGB", "(" >>, << "hsl", "(" >>,
                                << "rgba", "(" >>, << "hsla", "(" >>, << "url", "(" >> },
                     args \in SeqsUpTo(ArgShapes, MaxArgs) },
                 {AllWarning}, {WalkKb}, { << >> })
  /\ refValid = validProperties

SpecFunction == InitFunction /\ [][NextValue]_vars

(* ------------------- one declarations block at a time ----------------- *)

\* declarations whose value the block rules only read the text of
Valued(name, text) == Declaration(Property(name), Leaf("Expression", text), << >>)
Unvalued(name) == Declaration(Property(name), NoNode, << >>)

BlockTrees(decls, bound) ==
  { Stylesheet(<< ClassRule(table) >>) : table \in SeqsUpTo(decls, bound) }

NextBlock ==
  \/ VisitRuleSet
  \/ VisitSimpleSelector
  \/ VisitOther
  \/ Ascend
  \/ CompleteValidations

\* duplicate declarations
DuplicateDecls ==
  { Valued(<< "color" >>, text) : text \in { << "red" >>, << "blue" >>, << "-", "blue" >> } }
  \cup { Unvalued(<< "color" >>),
         Valued(<< "COLOR" >>, << "red" >>),
         Valued(<< "background" >>, << "red" >>) }

InitDuplicates ==
  /\ Constructed(BlockTrees(DuplicateDecls, MaxDecls), {AllWarning}, {WalkKb},
                 { << >>, << Raw(<< "COLOR", " " >>) >> })
  /\ refValid = validProperties

SpecDuplicates == InitDuplicates /\ [][NextBlock]_vars

\* vendor-prefixed and standard spellings of one property
Foo == << "foo" >>
S2Foo == << "-", "s2", "-", "foo" >>
MozFoo == << "-", "moz", "-", "foo" >>

VendorDecls ==
  { Valued(name, << "1" >>) : name \in {Foo, S2Foo, MozFoo, << "*", "foo" >>} } \cup { Unvalued(Foo) }

InitVendor ==
  /\ Constructed({ Stylesheet(<< RuleSet(selectors, Declarations(table)) >>) :
                     selectors \in { Selectors("ClassSelector", << ".", "a" >>),
                                     Selectors("PseudoSelector", << ":", "export" >>) },
                     table \in SeqsUpTo(VendorDecls, MaxDecls) },
                 {AllWarning},
                 { [atDirectives |-> {}, known |-> standard, standard |-> standard] :
                     standard \in SUBSET {Foo, S2Foo} },
                 { << >> })
  /\ refValid = validProperties

SpecVendor == InitVendor /\ [][NextBlock]_vars

\* the box model
BoxDecls ==
  { Valued(<< "width" >>, << "10", "px" >>),
    Valued(<< "height" >>, << "10", "px" >>),
    Valued(<< "border", "-", "left" >>, << "1", "px", " ", "solid", " ", "red" >>),
    Valued(<< "border", "-", "left" >>, << "0" >>),
    Valued(<< "padding" >>, << "1", "px" >>),
    Valued(<< "box", "-", "sizing" >>, << "border", "-", "box" >>),
    Unvalued(<< "width" >>) }

InitBox ==
  /\ Constructed(BlockTrees(BoxDecls, MaxDecls), {AllWarning}, {WalkKb}, { << >> })
  /\ refValid = validProperties

SpecBox == InitBox /\ [][NextBlock]_vars

\* properties ignored due to display
InlineBlock == << "inline", "-", "block" >>

DisplayDecls ==
  { Plain(<< "display" >>, << Ident(InlineBlock) >>),
    Plain(<< "display" >>, << Ident(<< "block" >>) >>),
    Plain(<< "display" >>, << Ident(<< "none" >>) >>),
    Plain(<< "float" >>, << Ident(<< "left" >>) >>),
    Plain(<< "float" >>, << Ident(<< "none" >>) >>),
    Unvalued(<< "float" >>),
    Plain(<< "vertical", "-", "align" >>, << Ident(<< "top" >>) >>) }

InitDisplay ==
  /\ Constructed(BlockTrees(DisplayDecls, MaxDecls), {AllWarning}, {WalkKb}, { << >> })
  /\ refValid = validProperties

SpecDisplay == InitDisplay /\ [][NextBlock]_vars

(* ----------- the same pass under two sets of valid properties --------- *)

MaxValidDecls == 2

Bogus == << "bogus" >>
XBogus == << "-", "x", "-", "bogus" >>

ValidDecls ==
  { Plain(<< "float" >>, << Ident(<< "left" >>) >>),
    Plain(<< "color" >>, << Ident(<< "red" >>) >>),
    Plain(Bogus, << Numeric(<< "0", "px" >>) >>),
    Plain(XBogus, << Numeric(<< "1" >>) >>) }

ValidNames == << << "float" >>, << "color" >>, Bogus, XBogus >>

\* the raw setting that declares the names of the set valid, each once
RawOf(names) ==
  LET chosen == SelectSeq(ValidNames, LAMBDA name : name \in names)
  IN  [i \in 1 .. Len(chosen) |-> Raw(<< " " >> \o chosen[i])]

InitValid ==
  /\ Constructed(BlockTrees(ValidDecls, MaxValidDecls), {AllWarning}, {WalkKb},
                 { RawOf(names) : names \in SUBSET Range(ValidNames) })
  /\ refValid \in SUBSET validProperties

NextValid ==
  \/ VisitRuleSet
  \/ VisitSimpleSelector
  \/ VisitNumericValue
  \/ VisitOther
  \/ Ascend
  \/ CompleteValidations

SpecValid == InitValid /\ [][NextValid]_vars

(* ------------------------------ claims -------------------------------- *)

IsPrefix(p, q) == Len(p) <= Len(q) /\ SubSeq(q, 1, Len(p)) = p

RECURSIVE PathsOf(_, _)
PathsOf(n, path) ==
  {path} \cup UNION { PathsOf(n.children[i], path \o << i >>) : i \in 1 .. Len(n.children) }

TreePaths == PathsOf(tree, << >>)

MarkersOn(list, path, rule) ==
  { k \in 1 .. Len(list) : list[k].node = path /\ list[k].rule = rule }

\* an unknown at-rule with a first child the knowledge base does not recognize
Unrecognized(path) ==
  /\ NodeAt(tree, path).type = "UnknownAtRule"
  /\ GetChild0(NodeAt(tree, path)) # NoNode
  /\ GetChild0(NodeAt(tree, path)).text \notin kb.atDirectives

C1_OneMarker(path) ==
  /\ call.added = << Entry(path \o << 1 >>, "UnknownAtRules",
                           << "Unknown at rule " >> \o NodeAt(tree, path).children[1].text) >>
  /\ Cardinality(MarkersOn(warnings, path \o << 1 >>, "UnknownAtRules")) = 1

\* C1 as stated: on an unrecognized at-rule visitUnknownAtRule appends exactly one
\* "unknown at-rule" marker on the first child, with the at-rule's text in the
\* detail, and returns false so that the traversal does not descend.
C1_ReturnsFalse ==
  (call.type = "UnknownAtRule" /\ Unrecognized(call.path))
    => (C1_OneMarker(call.path) /\ call.ret = FALSE)

\* C1 amended: the one marker is appended as stated, but visitUnknownAtRule returns
\* true and the traversal descends: once the pass is over, the id selectors below
\* every unrecognized at-rule have their own markers.
C1_ReturnsTrue ==
  /\ (call.type = "UnknownAtRule" /\ Unrecognized(call.path))
       => (C1_OneMarker(call.path) /\ call.ret = TRUE)
  /\ pc = "complete"
       => \A p \in TreePaths :
            \A q \in TreePaths :
              (Unrecognized(p) /\ IsPrefix(p, q) /\ NodeAt(tree, q).type = "IdentifierSelector")
                => MarkersOn(warnings, q, "AvoidIdSelector") # {}

C1_Witness ==
  /\ call.type = "UnknownAtRule"
  /\ Unrecognized(call.path)
  /\ call.ret = TRUE
  /\ Len(call.added) = 1
  /\ stack # << >>
  /\ Top.path = call.path

SharesBit(level, mask) ==
  \E b \in Levels : (level \div b) % 2 = 1 /\ (mask \div b) % 2 = 1

\* the k-th smallest member of a set of numbers
RECURSIVE Nth(_, _)
Nth(S, k) ==
  LET least == CHOOSE x \in S : \A y \in S : x <= y
  IN  IF k = 1 THEN least ELSE Nth(S \ {least}, k - 1)

\* C2: getEntries(M) returns exactly the accumulated markers whose level shares a
\* bit with M, in accumulation order, and leaves the accumulated list as it was;
\* filtering the result again with M gives the same sequence; with the default
\* mask no marker of a rule whose severity resolves to "off" is returned.
C2_GetEntries ==
  pc = "done" =>
    LET kept == { k \in 1 .. Len(warnings) : SharesBit(warnings[k].level, entries.filter) }
    IN  /\ entries.of = warnings
        /\ entries.out = [i \in 1 .. Cardinality(kept) |-> warnings[Nth(kept, i)]]
        /\ GetEntries(entries.out, entries.filter) = entries.out
        /\ entries.filter = DefaultFilter
             => \A i \in 1 .. Len(entries.out) :
                  settings[entries.out[i].rule] # LevelIgnore

C2_Witness ==
  /\ pc = "done"
  /\ entries.filter = DefaultFilter
  /\ Len(entries.out) > 1
  /\ Len(entries.out) < Len(warnings)

\* a rule-set or @font-face without a declarations list
Malformed(path) ==
  /\ NodeAt(tree, path).type \in {"Ruleset", "FontFace"}
  /\ ChildIndex(NodeAt(tree, path), "Declarations") = 0

C10_State ==
  /\ (call.type \notin HandledTypes /\ call.type # "None")
       => (call.ret = TRUE /\ call.added = << >>)
  /\ (call.path # NoPath /\ Malformed(call.path))
       => (call.ret = FALSE /\ call.added = << >>)
  /\ \A p \in TreePaths :
       Malformed(p) => \A k \in 1 .. Len(warnings) : ~ IsPrefix(p, warnings[k].node)
  /\ pc = "complete"
       => \A i \in 1 .. Len(tree.children) :
            /\ tree.children[i].type = "Import"
                 => MarkersOn(warnings, << i >>, "ImportStatemement") # {}
            /\ Unrecognized(<< i >>)
                 => MarkersOn(warnings, << i, 1 >>, "UnknownAtRules") # {}

\* C10: visitNode returns true on every node type without a handler; on a rule-set
\* or @font-face without a declarations list it returns false and appends nothing,
\* so no marker ever references that node or a descendant of it; the markers
\* accumulated before stay as they are and the rest of the tree is still checked.
C10_Pruning ==
  /\ [] C10_State
  /\ [][IsPrefix(warnings, warnings')]_vars

C10_Witness ==
  /\ pc = "complete"
  /\ Len(tree.children) = 2
  /\ Malformed(<< 1 >>)
  /\ NodeAt(tree, << 1 >>).type = "Ruleset"
  /\ warnings # << >>

Flagged(rule) == \E i \in 1 .. Len(call.added) :
                   call.added[i] = Entry(call.path, rule, << >>)

\* a zero with a recognized length unit, inside the value of a declaration
ZeroLengthInValue(path) ==
  LET n == NodeAt(tree, path)
  IN  /\ n.type = "NumericValue"
      /\ n.text[1] \in {"0", "0.0", "-0"}
      /\ Len(n.text) = 2
      /\ \E u \in LengthUnits : LowerTok(n.text[2]) = u
      /\ \E k \in 0 .. Len(path) - 1 :
           NodeAt(tree, SubSeq(path, 1, k)).type = "Expression"
           /\ k > 0
           /\ NodeAt(tree, SubSeq(path, 1, k - 1)).type = "Declaration"

DeclarationNameOf(path) ==
  LET ks == { k \in 0 .. Len(path) : NodeAt(tree, SubSeq(path, 1, k)).type = "Declaration" }
  IN  NodeAt(tree, SubSeq(path, 1, CHOOSE k \in ks : TRUE)).text

\* some enclosing function is calc
InsideCalc(path) ==
  \E k \in 0 .. Len(path) - 1 :
    LET a == NodeAt(tree, SubSeq(path, 1, k))
    IN  a.type = "Function" /\ a.text = << "calc" >>

\* the innermost enclosing function is calc
DirectlyInsideCalc(path) ==
  \E k \in 0 .. Len(path) - 1 :
    LET a == NodeAt(tree, SubSeq(path, 1, k))
    IN  /\ a.type = "Function" /\ a.text = << "calc" >>
        /\ \A j \in k + 1 .. Len(path) - 1 :
             NodeAt(tree, SubSeq(path, 1, j)).type # "Function"

\* C7: a zero with a recognized length unit inside a declaration's value is flagged
\* "zero with unit" unless the declaration's full property name is user-declared
\* valid, and never when it lies anywhere inside a calc(...) argument.
C7_ZeroWithUnit ==
  (call.type = "NumericValue" /\ ZeroLengthInValue(call.path))
    => (Flagged("ZeroWithUnit")
          <=> (~ InsideCalc(call.path)
               /\ DeclarationNameOf(call.path) \notin validProperties))

\* what visitNumericValue does instead: only the innermost enclosing function counts
C7_InnermostFunction ==
  (call.type = "NumericValue" /\ ZeroLengthInValue(call.path))
    => (Flagged("ZeroWithUnit")
          <=> (~ DirectlyInsideCalc(call.path)
               /\ DeclarationNameOf(call.path) \notin validProperties))

\* the binary expressions of the argument list that lie below no other one
TopLevelBinaries(path) ==
  LET isBinary(q) == NodeAt(tree, q).type = "BinaryExpression"
      below == { q \in TreePaths : IsPrefix(path, q) /\ q # path }
  IN  { q \in below :
          /\ isBinary(q)
          /\ \A k \in Len(path) + 1 .. Len(q) - 1 : ~ isBinary(SubSeq(q, 1, k)) }

ExpectedArguments(name) ==
  IF Len(name) = 2 /\ name[2] = "(" /\ LowerTok(name[1]) \in {"rgb", "hsl"} THEN {3}
  ELSE IF Len(name) = 2 /\ name[2] = "(" /\ LowerTok(name[1]) \in {"rgba", "hsla"} THEN {4}
  ELSE {}

BlockPath == call.path \o << ChildIndex(NodeAt(tree, call.path), "Declarations") >>

OnBlock ==
  /\ call.type = "Ruleset"
  /\ ChildIndex(NodeAt(tree, call.path), "Declarations") # 0

\* the positions of the declarations in the block
DeclIndices ==
  { i \in 1 .. Len(NodeAt(tree, BlockPath).children) :
      NodeAt(tree, BlockPath).children[i].type = "Declaration" }

DeclAt(i) == NodeAt(tree, BlockPath).children[i]

\* the normalized (lower-cased) property name of the i-th declaration
NameAt(i) == ToLowerCase(ChildOfType(DeclAt(i), "Property").text)

HasValueAt(i) == ChildIndex(DeclAt(i), "Expression") # 0

ValueTextAt(i) == ChildOfType(DeclAt(i), "Expression").text

\* how many markers of the rule the last call put on the node
Count(path, rule) == Cardinality(MarkersOn(call.added, path, rule))

\* the value is there and does not begin with '-'
PlainAt(i) == HasValueAt(i) /\ ValueTextAt(i)[1] # "-"

DuplicateOfAnother(i) ==
  /\ NameAt(i) # << "background" >>
  /\ NameAt(i) \notin validProperties
  /\ PlainAt(i)
  /\ \E j \in DeclIndices \ {i} : NameAt(j) = NameAt(i) /\ PlainAt(j)

TableIs(decls) == NodeAt(tree, BlockPath).children = decls

PropertyAt(i) == BlockPath \o << i, ChildIndex(DeclAt(i), "Property") >>

\* a vendor-prefixed name: a leading '-' that does not open a custom property
PrefixedAt(i) == NameAt(i)[1] = "-" /\ NameAt(i)[2] # "-"

\* the name the i-th declaration is seen under, and the root it is gathered under
SeenAt(i) ==
  IF NameAt(i)[1] \in {"*", "_"} THEN Tail(NameAt(i)) ELSE NameAt(i)

RootAt(i) ==
  IF PrefixedAt(i)
  THEN LET dashes == { k \in 2 .. Len(NameAt(i)) : NameAt(i)[k] = "-" }
           second == CHOOSE k \in dashes : \A j \in dashes : k <= j
       IN  IF dashes = {} THEN NameAt(i) ELSE SubSeq(NameAt(i), second + 1, Len(NameAt(i)))
  ELSE SeenAt(i)

Gathered(root) == { i \in DeclIndices : RootAt(i) = root }

NamesSeen(root) == { SeenAt(i) : i \in Gathered(root) }

NeedsStandard(root) == root \in kb.standard /\ root \notin NamesSeen(root)

MissesVendor(root) ==
  \E k \in 1 .. Len(Prefixes) :
    Prefixes[k] \o root \in kb.standard /\ Prefixes[k] \o root \notin NamesSeen(root)

Skipped(root) == Cardinality(Gathered(root)) = 1 /\ ~ NeedsStandard(root)

\* every declaration has a property identifier without interpolation and a value
Analyzable ==
  \A i \in 1 .. Len(NodeAt(tree, BlockPath).children) :
    /\ i \in DeclIndices
    /\ HasValueAt(i)
    /\ ChildIndex(ChildOfType(DeclAt(i), "Property"), "Identifier") # 0

Export == NodeAt(tree, call.path).children[1].text = << ":", "export" >>

VendorRules == {"IncludeStandardPropertyWhenUsingVendorPrefix", "AllVendorPrefixes"}

\* C4: in a block that is not ':export' and has no non-analyzable declaration, a
\* property node gathered under a root gets one "include standard property" marker
\* iff the root is a standard property and its bare name is not among the names
\* seen, and one "all vendor prefixes" marker iff an expected prefixed variant is
\* not among the names seen and the root was not skipped; no other node gets
\* either. With '-s2-foo' (a standard spelling) and 'foo' both declared there is no
\* such marker for root foo; with only '-s2-foo' declared and 'foo' standard there
\* is exactly one "include standard property" marker on each '-s2-foo' property.
C4_VendorPrefixes ==
  (OnBlock /\ ~ Export /\ Analyzable) =>
    /\ \A i \in DeclIndices :
         IF PrefixedAt(i)
         THEN /\ Count(PropertyAt(i), "IncludeStandardPropertyWhenUsingVendorPrefix")
                   = IF NeedsStandard(RootAt(i)) THEN 1 ELSE 0
              /\ Count(PropertyAt(i), "AllVendorPrefixes")
                   = IF MissesVendor(RootAt(i)) /\ ~ Skipped(RootAt(i)) THEN 1 ELSE 0
         ELSE \A rule \in VendorRules : Count(PropertyAt(i), rule) = 0
    /\ \A k \in 1 .. Len(call.added) :
         call.added[k].rule \in VendorRules
           => \E i \in DeclIndices : call.added[k].node = PropertyAt(i)
    /\ ({S2Foo, Foo} \subseteq { NameAt(i) : i \in DeclIndices } /\ S2Foo \in kb.standard)
         => \A i \in Gathered(Foo) : \A rule \in VendorRules : Count(PropertyAt(i), rule) = 0
    /\ ({ NameAt(i) : i \in DeclIndices } = {S2Foo} /\ Foo \in kb.standard)
         => \A i \in DeclIndices :
              /\ Count(PropertyAt(i), "IncludeStandardPropertyWhenUsingVendorPrefix") = 1
              /\ Count(PropertyAt(i), "AllVendorPrefixes") = 0

C4_Witness ==
  /\ OnBlock /\ ~ Export /\ Analyzable
  /\ kb.standard = {Foo, S2Foo}
  /\ Len(NodeAt(tree, BlockPath).children) = 2
  /\ NameAt(1) = MozFoo
  /\ NameAt(2) = MozFoo
  /\ \A i \in {1, 2} : \A rule \in VendorRules : Count(PropertyAt(i), rule) = 1

\* the paths of the elements the two sides of a dimension report
Contributors(first, second) ==
  { e.path : e \in (IF first.value THEN Range(first.properties) ELSE {})
                   \cup (IF second.value THEN Range(second.properties) ELSE {}) }

\* the markers the dimension asks for on the node at path
SizeMarkers(path, dimension, first, second) ==
  IF dimension = NoElement \/ Contributors(first, second) = {} THEN 0
  ELSE (IF path \in Contributors(first, second) THEN 1 ELSE 0)
       + (IF path = dimension.path THEN 1 ELSE 0)

BoxModel == CalculateBoxModel(PropertyTable(NodeAt(tree, call.path), call.path))

\* C6: when the box-model summary reports a width together with left / right
\* contributors, each distinct contributing declaration gets exactly one "beware of
\* box-model size" marker and the width declaration exactly one, and none without
\* a contributor; the same for height with top / bottom. 'width: 10px;
\* border-left: 1px solid red' gets exactly two, on border-left and on width.
C6_BoxModel ==
  OnBlock =>
    /\ \A path \in TreePaths :
         Count(path, "BewareOfBoxModelSize")
           = SizeMarkers(path, BoxModel.width, BoxModel.right, BoxModel.left)
             + SizeMarkers(path, BoxModel.height, BoxModel.top, BoxModel.bottom)
    /\ TableIs(<< Valued(<< "width" >>, << "10", "px" >>),
                  Valued(<< "border", "-", "left" >>,
                         << "1", "px", " ", "solid", " ", "red" >>) >>)
         => SelectSeq(call.added, LAMBDA e : e.rule = "BewareOfBoxModelSize")
              = << Entry(BlockPath \o << 2 >>, "BewareOfBoxModelSize", << >>),
                   Entry(BlockPath \o << 1 >>, "BewareOfBoxModelSize", << >>) >>

C6_Witness ==
  /\ OnBlock
  /\ Len(NodeAt(tree, BlockPath).children) = 3
  /\ NameAt(1) = << "padding" >>
  /\ NameAt(2) = << "width" >> /\ HasValueAt(2)
  /\ NameAt(3) = << "height" >>
  /\ Count(BlockPath \o << 1 >>, "BewareOfBoxModelSize") = 2
  /\ Count(BlockPath \o << 2 >>, "BewareOfBoxModelSize") = 1
  /\ Count(BlockPath \o << 3 >>, "BewareOfBoxModelSize") = 1

\* the block declares 'display' with a value that holds the identifier
Displays(v) ==
  \E i \in DeclIndices :
    /\ NameAt(i) = << "display" >>
    /\ HasValueAt(i)
    /\ LET at == BlockPath \o << i, ChildIndex(DeclAt(i), "Expression") >>
       IN  \E q \in TreePaths :
             /\ IsPrefix(at, q)
             /\ NodeAt(tree, q).type = "Identifier"
             /\ NodeAt(tree, q).text = v

IgnoredDueToDisplay(i) ==
  \/ /\ NameAt(i) = << "float" >>
     /\ Displays(InlineBlock)
     /\ HasValueAt(i)
     /\ ValueTextAt(i) # << "none" >>
  \/ /\ NameAt(i) = << "vertical", "-", "align" >>
     /\ Displays(<< "block" >>)

\* C9: in a block that declares 'display: inline-block' every 'float' declaration
\* with a value other than 'none' gets a "property ignored due to display" marker
\* and 'float: none' gets none; in a block that declares 'display: block' every
\* 'vertical-align' declaration gets one; no other declaration gets one, so a
\* block without such a 'display' declaration has none.
C9_IgnoredDueToDisplay ==
  OnBlock =>
    /\ \A i \in DeclIndices :
         Count(BlockPath \o << i >>, "PropertyIgnoredDueToDisplay")
           = IF IgnoredDueToDisplay(i) THEN 1 ELSE 0
    /\ \A k \in 1 .. Len(call.added) :
         call.added[k].rule = "PropertyIgnoredDueToDisplay"
           => \E i \in DeclIndices : call.added[k].node = BlockPath \o << i >>
    /\ (~ Displays(InlineBlock) /\ ~ Displays(<< "block" >>))
         => \A k \in 1 .. Len(call.added) :
              call.added[k].rule # "PropertyIgnoredDueToDisplay"

C9_Witness ==
  /\ OnBlock
  /\ Len(NodeAt(tree, BlockPath).children) = 3
  /\ NameAt(1) = << "float" >> /\ HasValueAt(1) /\ ValueTextAt(1) = << "left" >>
  /\ NameAt(2) = << "float" >> /\ HasValueAt(2) /\ ValueTextAt(2) = << "none" >>
  /\ Displays(InlineBlock)
  /\ Count(BlockPath \o << 1 >>, "PropertyIgnoredDueToDisplay") = 1
  /\ Count(BlockPath \o << 2 >>, "PropertyIgnoredDueToDisplay") = 0

(* ------------------- claims on the valid properties ------------------- *)

\* s is t with some of its elements left out
RECURSIVE IsSubsequence(_, _)
IsSubsequence(s, t) ==
  IF s = << >> THEN TRUE
  ELSE IF t = << >> THEN FALSE
  ELSE IF Head(s) = Head(t) THEN IsSubsequence(Tail(s), Tail(t))
  ELSE IsSubsequence(s, Tail(t))

C5_State ==
  /\ refValid \subseteq validProperties
  /\ IsSubsequence(warnings, refWarnings)
  /\ call.ret = call.refRet

\* C5: the valid-properties set only suppresses markers: the markers a pass
\* produces with a set V are a sub-sequence (same nodes, rules, details, order) of
\* those the pass produces with any subset of V, the empty set included, the two
\* passes descend into the same nodes, and the pass never modifies the set.
C5_OnlySuppresses ==
  /\ [] C5_State
  /\ [][validProperties' = validProperties]_vars

C5_Witness ==
  /\ pc = "complete"
  /\ refValid = {}
  /\ validProperties = {Bogus}
  /\ \E k \in 1 .. Len(refWarnings) : refWarnings[k].rule = "ZeroWithUnit"
  /\ \A k \in 1 .. Len(warnings) : warnings[k].rule # "ZeroWithUnit"
  /\ Len(refWarnings) = Len(warnings) + 2
  /\ \E k \in 1 .. Len(warnings) : warnings[k].rule = "AvoidFloat"

(* ------------------ how many duplicate markers there are -------------- *)

DuplicateMarkers == SelectSeq(call.added, LAMBDA e : e.rule = "DuplicateDeclarations")

\* the block holds n >= 2 declarations, all of one name that is not 'background'
\* and not user-declared valid, each with a value that does not begin with '-'
AllNamesakes ==
  /\ Cardinality(DeclIndices) >= 2
  /\ DeclIndices = 1 .. Len(NodeAt(tree, BlockPath).children)
  /\ \A i \in DeclIndices :
       /\ NameAt(i) = NameAt(1)
       /\ NameAt(i) # << "background" >>
       /\ NameAt(i) \notin validProperties
       /\ PlainAt(i)

\* C11: each flagged duplicate declaration receives exactly one "duplicate
\* declarations" marker, however many other declarations share its name: a block
\* of n >= 2 same-named declarations (not 'background', not user-valid, no value
\* beginning with '-') gets exactly n such markers, one per declaration.
C11_OneMarkerEach ==
  OnBlock =>
    /\ \A i \in DeclIndices : Count(BlockPath \o << i >>, "DuplicateDeclarations") <= 1
    /\ AllNamesakes => Len(DuplicateMarkers) = Cardinality(DeclIndices)

\* what the loop does instead: a declaration gets one marker for every other
\* declaration of its name that has a value not beginning with '-', so n namesakes
\* get n * (n - 1) markers
C11_OneMarkerPerNamesake ==
  OnBlock =>
    /\ \A i \in DeclIndices :
         Count(BlockPath \o << i >>, "DuplicateDeclarations")
           = IF DuplicateOfAnother(i)
             THEN Cardinality({ j \in DeclIndices \ {i} : NameAt(j) = NameAt(i) /\ PlainAt(j) })
             ELSE 0
    /\ AllNamesakes
         => Len(DuplicateMarkers) = Cardinality(DeclIndices) * (Cardinality(DeclIndices) - 1)

\* three namesakes, two markers on each
C11_ThreeNamesakes ==
  /\ OnBlock
  /\ AllNamesakes
  /\ Cardinality(DeclIndices) = 3
  /\ \A i \in DeclIndices : Count(BlockPath \o << i >>, "DuplicateDeclarations") = 2

====
